---- MODULE Spec2Model ----
(***************************************************************************)
(* BayesBall data import: the season catalog (DynamoDB meta table), the    *)
(* snapshot store (S3), the bootstrap import (fetch_seasons/app.py) and    *)
(* the incremental synchronization run (fetch_fixtures_and_teams/app.py).  *)
(*                                                                         *)
(* Calendar dates are ISO strings in the code and are compared as strings; *)
(* here a date is a day number, 0 being "2000-01-01", which keeps the      *)
(* order the string comparison gives.                                      *)
(***************************************************************************)
EXTENDS Integers, Sequences, FiniteSets, TLC

\* ------------------------------------------------------------------ bounds
MaxDay == 2
MaxLimit == 2
MaxCatalog == 2
MaxTableLen == 3

\* -------------------------------------------------------- program constants
FIRST_YEAR == 2019
\* "2000-01-01": the placeholder of last_updated_fixtures at creation and the
\* default of last_updated_posteriors
FAR_PAST == 0
HTTP_OK == 200
\* Python's None: an attribute a row does not carry, a JSON null
None == -1
\* the float nan that Series.max() gives on an empty series
NaN == -2
\* a key the provider's JSON record does not hold at all
Missing == -3

Dates == 1..MaxDay
\* the league ids of the provider
Leagues == {1, 2, 3}
SeasonYears == {FIRST_YEAR, FIRST_YEAR + 1}
Keys == Leagues \X SeasonYears
\* get_data gives None or a list of at least one record: the empty sequence
\* stands for None
NoData == << >>
\* what an S3 key holds before anything is put under it
NoObject == << >>

Max(S) == CHOOSE x \in S : \A y \in S : y <= x
Min2(a, b) == IF a <= b THEN a ELSE b
SeqsUpTo(S, n) == UNION {[1..m -> S] : m \in 0..n}

VARIABLES
    table,          \* the meta table: (league_id, season_year) -> item
    s3,             \* the bucket: <<category, league_id, season_year>> -> data.csv
    now,            \* the calendar day
    pc,             \* where the synchronization run is
    todays_date,    \* the run's processing date
    query_limit,    \* the Limit of the query the run has just made
    leagues_we_need_to_update,  \* the items the run selected
    i,              \* the position of the run in them
    teams_updated,  \* whether this candidate's teams were refreshed
    fixtures,       \* this candidate's fixture table
    newest_game_date,  \* this candidate's newest completed game date
    calls,          \* the provider and bucket calls made for this candidate
    outcome,        \* what the last step handed to the caller of its handler, if
                    \* it ended one: the exception raised or the body returned
    provider,       \* what the provider holds, when its data does not change
    other           \* the locals of a second invocation of the run, which is
                    \* not executing at the moment

vars == <<table, s3, now, pc, todays_date, query_limit, leagues_we_need_to_update,
          i, teams_updated, fixtures, newest_game_date, calls, outcome, provider, other>>
syncLocals == <<todays_date, query_limit, leagues_we_need_to_update, i, teams_updated, fixtures,
                newest_game_date, calls>>
\* What no step of either handler changes.
aside == <<provider, other>>

\* ------------------------------------------------------------- the meta table
NoItem ==
    [league_id |-> None, season_year |-> None, start_date |-> None, end_date |-> None,
     last_updated_fixtures |-> None, data_need_to_update |-> None,
     last_updated_teams |-> None, newest_game_date |-> None,
     last_updated_posteriors |-> None, posteriors_need_to_update |-> None]

KeyOf(item) == <<item.league_id, item.season_year>>

\* ------------------------------------------------------------ provider data
\* A kick-off time is a day and an hour of it; game_date.dt.strftime("%Y-%m-%d")
\* keeps the day.
Timestamps(hours) == {d * 10 + h : d \in Dates, h \in hours}
strftime_day(ts) == ts \div 10

\* One record of the provider's fixtures response: fixture.date and
\* score.fulltime.home (null while the game is not played, or no such key).
RawFixtures(hours) ==
    [fixture_date : Timestamps(hours), score_fulltime_home : {Missing, None, 0}]
\* One record of the provider's teams response: team.id and team.code.
RawTeams == [team_id : {1}, team_code : {Missing, 1}]

\* The response arrays that hold no record or one record of these.
UpToOne(records) == {<< >>} \cup {<<r>> : r \in records}

\* The answers of the provider to a request: status 200 with one of these
\* response arrays, or a failure status.
Responses(bodies) ==
    {[status_code |-> HTTP_OK, response |-> b] : b \in bodies}
        \cup {[status_code |-> 500, response |-> << >>]}

\* The provider's data is any at all, each request answered on its own.
AnyProvider ==
    [fixed |-> FALSE,
     listing |-> [status_code |-> 500, response |-> << >>],
     teams |-> [status_code |-> 500, response |-> << >>],
     fixtures |-> [status_code |-> 500, response |-> << >>]]

\* The answers a request can get: the one answer of a provider whose data
\* does not change, else any of these.
Answers(held, any) == IF provider.fixed THEN {held} ELSE any

\* get_data: the response array of a 200 answer that holds records, else None.
get_data(response) ==
    IF response.status_code = HTTP_OK
    THEN IF Len(response.response) > 0 THEN response.response ELSE NoData
    ELSE NoData

\* process_fixtures_to_df: json_normalize raises on None; a column exists when
\* some record holds its key, and the records without it get a null there;
\* selecting a column no record holds raises KeyError.
process_fixtures_to_df(fixtures_json) ==
    IF fixtures_json = NoData
    THEN [err |-> "NotImplementedError", df |-> << >>]
    ELSE IF \A j \in 1..Len(fixtures_json) : fixtures_json[j].score_fulltime_home = Missing
    THEN [err |-> "KeyError", df |-> << >>]
    ELSE [err |-> "none",
          df |-> [j \in 1..Len(fixtures_json) |->
                    [game_date |-> fixtures_json[j].fixture_date,
                     score_ft_home |->
                        IF fixtures_json[j].score_fulltime_home = Missing
                        THEN None ELSE fixtures_json[j].score_fulltime_home]]]

process_teams_to_df(teams_json) ==
    IF teams_json = NoData
    THEN [err |-> "NotImplementedError", df |-> << >>]
    ELSE IF \A j \in 1..Len(teams_json) : teams_json[j].team_code = Missing
    THEN [err |-> "KeyError", df |-> << >>]
    ELSE [err |-> "none",
          df |-> [j \in 1..Len(teams_json) |->
                    [team_id |-> teams_json[j].team_id,
                     team_code |->
                        IF teams_json[j].team_code = Missing
                        THEN None ELSE teams_json[j].team_code]]]

\* ------------------------------------------------------ freshness calculator
\* A day test that is content with one scored game: what the aggregation would
\* be with x.notna().any().
DayHasSomeScore(fixture_df, day) ==
    \E j \in 1..Len(fixture_df) :
        strftime_day(fixture_df[j].game_date) = day /\ fixture_df[j].score_ft_home # None

\* The groupby("day").agg(lambda x: not x.isna().any()) of get_newest_game_date.
DayHasNoNull(fixture_df, day) ==
    \A j \in 1..Len(fixture_df) :
        strftime_day(fixture_df[j].game_date) = day => fixture_df[j].score_ft_home # None

get_newest_game_date(fixture_df) ==
    LET days == {strftime_day(fixture_df[j].game_date) : j \in 1..Len(fixture_df)}
        kept == {d \in days : DayHasNoNull(fixture_df, d)}
    IN  IF kept = {} THEN NaN ELSE Max(kept)

\* ------------------------------------------------------- candidate selector
\* What the index would hold were it keyed by the range attribute alone.
CarriesRangeKey(item) ==
    /\ item # NoItem
    /\ item.last_updated_fixtures # None

\* An item is in LastUpdatedIndex when it carries the index's hash and range
\* attributes; the key condition keeps data_need_to_update = 1.
InLastUpdatedIndex(item) ==
    /\ item # NoItem
    /\ item.data_need_to_update = 1
    /\ item.last_updated_fixtures # None

\* ScanIndexForward=False: the index is read by descending range key.
ScanOrder(a, b) == a >= b

\* get_leagues_to_update: every answer the query can give (items with equal
\* range keys come in an order the store chooses).
get_leagues_to_update(tbl, limit) ==
    LET eligible == {k \in Keys : InLastUpdatedIndex(tbl[k])}
        n == Min2(limit, Cardinality(eligible))
        luf(k) == tbl[k].last_updated_fixtures
    IN  {[j \in 1..n |-> tbl[ks[j]]] :
            ks \in {s \in [1..n -> eligible] :
                      /\ \A a, b \in 1..n : a # b => s[a] # s[b]
                      /\ \A a, b \in 1..n : a < b => ScanOrder(luf(s[a]), luf(s[b]))
                      /\ \A k \in eligible :
                            (\A a \in 1..n : s[a] # k) =>
                                \A a \in 1..n : ScanOrder(luf(s[a]), luf(k))}}

\* --------------------------------------------------------- metadata update
\* An update whose expression also sets last_updated_posteriors, to the date
\* of the update.
update_stamping_posteriors(tbl, league_id, season_year, last_updated_teams, last_updated_fixtures, newest, posteriors_need_to_update, data_need_to_update) ==
    LET k == <<league_id, season_year>>
        old == IF tbl[k] = NoItem
               THEN [NoItem EXCEPT !.league_id = league_id, !.season_year = season_year]
               ELSE tbl[k]
        set1 == [old EXCEPT !.last_updated_fixtures = last_updated_fixtures,
                            !.newest_game_date = newest,
                            !.last_updated_posteriors = last_updated_fixtures]
        set2 == IF last_updated_teams # None
                THEN [set1 EXCEPT !.last_updated_teams = last_updated_teams]
                ELSE set1
        set3 == IF posteriors_need_to_update
                THEN [set2 EXCEPT !.posteriors_need_to_update = 1]
                ELSE set2
        set4 == IF data_need_to_update = FALSE
                THEN [set3 EXCEPT !.data_need_to_update = None]
                ELSE set3
    IN  [tbl EXCEPT ![k] = set4]

\* An update whose expression also removes posteriors_need_to_update when the
\* argument is false.
update_clearing_posteriors_flag(tbl, league_id, season_year, last_updated_teams, last_updated_fixtures, newest, posteriors_need_to_update, data_need_to_update) ==
    LET k == <<league_id, season_year>>
        old == IF tbl[k] = NoItem
               THEN [NoItem EXCEPT !.league_id = league_id, !.season_year = season_year]
               ELSE tbl[k]
        set1 == [old EXCEPT !.last_updated_fixtures = last_updated_fixtures,
                            !.newest_game_date = newest]
        set2 == IF last_updated_teams # None
                THEN [set1 EXCEPT !.last_updated_teams = last_updated_teams]
                ELSE set1
        set3 == [set2 EXCEPT !.posteriors_need_to_update =
                                IF posteriors_need_to_update THEN 1 ELSE None]
        set4 == IF data_need_to_update = FALSE
                THEN [set3 EXCEPT !.data_need_to_update = None]
                ELSE set3
    IN  [tbl EXCEPT ![k] = set4]

\* update_the_dymamodb_meta_table: the SET and REMOVE clauses the arguments
\* select, applied to the item of the key (update_item creates the item when
\* the key has none).
update_the_dymamodb_meta_table(tbl, league_id, season_year, last_updated_teams, last_updated_fixtures, newest, posteriors_need_to_update, data_need_to_update) ==
    LET k == <<league_id, season_year>>
        old == IF tbl[k] = NoItem
               THEN [NoItem EXCEPT !.league_id = league_id, !.season_year = season_year]
               ELSE tbl[k]
        set1 == [old EXCEPT !.last_updated_fixtures = last_updated_fixtures,
                            !.newest_game_date = newest]
        set2 == IF last_updated_teams # None
                THEN [set1 EXCEPT !.last_updated_teams = last_updated_teams]
                ELSE set1
        set3 == IF posteriors_need_to_update
                THEN [set2 EXCEPT !.posteriors_need_to_update = 1]
                ELSE set2
        set4 == IF data_need_to_update = FALSE
                THEN [set3 EXCEPT !.data_need_to_update = None]
                ELSE set3
    IN  [tbl EXCEPT ![k] = set4]

\* The first branch of the staleness test alone.
NeverFetched(item) == item.last_updated_teams = None

\* The team data is stale: never fetched, or fetched before the season started.
TeamsStale(item) ==
    \/ item.last_updated_teams = None
    \/ item.last_updated_teams < item.start_date

\* league_which_needs_updating.get("last_updated_posteriors", "2000-01-01")
LastUpdatedPosteriors(item) ==
    IF item.last_updated_posteriors = None THEN FAR_PAST ELSE item.last_updated_posteriors

\* --------------------------------------------------------- bootstrap import
\* One season of the provider's league listing, after json_normalize.
SeasonBounds == {se \in Dates \X Dates : se[1] <= se[2]}
RawSeasons(leagues, types, coverages) ==
    [league_id : leagues, league_type : types, year : SeasonYears,
     coverage_fixtures_events : coverages, bounds : SeasonBounds]

\* The row filter of process_json_to_dataframe.
KeepSeason(season, first_year_kept) ==
    /\ season.league_type # "Cup"
    /\ season.year > first_year_kept
    /\ season.coverage_fixtures_events

\* drop_duplicates(subset=["league_id", "season_year"], keep="first")
drop_duplicates_keep_first(seasons) ==
    LET kept == {j \in 1..Len(seasons) :
                    \A m \in 1..(j - 1) :
                        \/ seasons[m].league_id # seasons[j].league_id
                        \/ seasons[m].year # seasons[j].year}
    IN  [n \in 1..Cardinality(kept) |->
            seasons[CHOOSE j \in kept : Cardinality({m \in kept : m <= j}) = n]]

\* drop_duplicates(subset=["league_id", "season_year"], keep="last")
RECURSIVE drop_duplicates_keep_last(_)
drop_duplicates_keep_last(seasons) ==
    IF seasons = << >> THEN << >>
    ELSE IF \E m \in 2..Len(seasons) :
                /\ seasons[m].league_id = seasons[1].league_id
                /\ seasons[m].year = seasons[1].year
         THEN drop_duplicates_keep_last(Tail(seasons))
         ELSE <<seasons[1]>> \o drop_duplicates_keep_last(Tail(seasons))

process_json_to_dataframe(data, first_year_kept) ==
    drop_duplicates_keep_last(SelectSeq(data, LAMBDA r : KeepSeason(r, first_year_kept)))

\* The item lambda_handler builds of a season: the renamed columns and the two
\* placeholder columns.
NewItem(season) ==
    [NoItem EXCEPT !.league_id = season.league_id,
                   !.season_year = season.year,
                   !.start_date = season.bounds[1],
                   !.end_date = season.bounds[2],
                   !.last_updated_fixtures = FAR_PAST,
                   !.data_need_to_update = 1]

\* put_item without the ConditionExpression: the item replaces what the key holds.
put_item_unconditional(tbl, item) == [tbl EXCEPT ![KeyOf(item)] = item]

\* put_item under attribute_not_exists(league_id) and
\* attribute_not_exists(season_year): a key that holds an item keeps it, and the
\* ConditionalCheckFailedException is swallowed.
put_item(tbl, item) ==
    IF tbl[KeyOf(item)] = NoItem
    THEN [tbl EXCEPT ![KeyOf(item)] = item]
    ELSE tbl

RECURSIVE put_items(_, _)
put_items(tbl, items) ==
    IF items = << >> THEN tbl
    ELSE put_items(put_item(tbl, Head(items)), Tail(items))

\* What lambda_handler of the import does with an answer of the listing
\* endpoint: get_seasons_data_from_api raises on a non-200 answer; the frame
\* json_normalize makes of an empty array has no column, and
\* process_json_to_dataframe raises on it (KeyError at the row filter, if not
\* before); else the items are those of process_json_to_dataframe with the
\* placeholder columns.
ImportOf(response) ==
    IF response.status_code # HTTP_OK
    THEN [err |-> "Exception", items |-> << >>]
    ELSE IF response.response = << >>
    THEN [err |-> "KeyError", items |-> << >>]
    ELSE LET seasons == process_json_to_dataframe(response.response, FIRST_YEAR)
         IN  [err |-> "none", items |-> [j \in 1..Len(seasons) |-> NewItem(seasons[j])]]

\* lambda_handler of the import, for any of these answers: the items are put
\* one by one, and a client error other than the failed condition ends the
\* import after the puts already made.
lambda_handler_seasons(responses) ==
    /\ \E import \in {ImportOf(response) : response \in responses} :
          IF import.err # "none"
          THEN /\ outcome' = import.err
               /\ UNCHANGED table
          ELSE \E puts_made \in 0..Len(import.items) :
                  /\ table' = put_items(table, SubSeq(import.items, 1, puts_made))
                  /\ outcome' = IF puts_made = Len(import.items)
                                THEN "Meta information succesfully imported"
                                ELSE "ClientError"
    /\ UNCHANGED aside
    /\ UNCHANGED <<s3, now, pc, syncLocals>>

\* The listings of the provider in which league 1, a league competition with
\* events coverage, has no season or one season, of either year; or the one
\* listing of a provider whose data does not change.
Listings == Answers(provider.listing, Responses(UpToOne(RawSeasons({1}, {"League"}, {TRUE}))))

BootstrapImport == lambda_handler_seasons(Listings)

\* ------------------------------------------------------ synchronization run
S3Paths == {"teams", "fixtures"} \X Leagues \X SeasonYears

\* An upload that appends the table's rows to the object under the key.
upload_df_appending(bucket, key, df) == [bucket EXCEPT ![key] = @ \o df]

\* upload_df_to_s3: the object under the key is replaced by the table's rows.
upload_df_to_s3(bucket, key, df) == [bucket EXCEPT ![key] = df]

\* The flag as it would be were the season still open on its last day.
EndsTodayOrLater(item, today) == item.end_date >= today

\* data_need_to_update = end_date > todays_date
DataNeedToUpdate(item, today) == item.end_date > today

\* posteriors_need_to_update = last_updated_posteriors < newest_game_date
PosteriorsNeedToUpdate(item, newest) ==
    LastUpdatedPosteriors(item) < newest

\* The locals of an invocation that has ended.
NoLocals ==
    /\ todays_date' = None
    /\ query_limit' = None
    /\ newest_game_date' = None
    /\ leagues_we_need_to_update' = << >>
    /\ i' = 1
    /\ teams_updated' = FALSE
    /\ fixtures' = NoData
    /\ calls' = {}

\* An exception leaves lambda_handler: the invocation ends where it is.
Raise(exception) ==
    /\ pc' = "idle"
    /\ outcome' = exception
    /\ NoLocals

\* MAX_UPDATES is read from the environment when the module is loaded.
Limits == 1..MaxLimit

\* todays_date and the query of the items to update.
StartRun ==
    /\ pc = "idle"
    /\ todays_date' = now
    /\ \E MAX_UPDATES \in Limits :
          /\ query_limit' = MAX_UPDATES
          /\ \E items \in get_leagues_to_update(table, MAX_UPDATES) :
                leagues_we_need_to_update' = items
    /\ i' = 1
    /\ teams_updated' = FALSE
    /\ fixtures' = NoData
    /\ newest_game_date' = None
    /\ calls' = {}
    /\ pc' = "loop"
    /\ outcome' = "none"
    /\ UNCHANGED aside
    /\ UNCHANGED <<table, s3, now>>

\* The head of a pass of the loop: the staleness test of the teams and, when
\* they are stale, fetch_and_upload_teams (get_data, process_teams_to_df,
\* upload_df_to_s3).
TeamsStep ==
    /\ pc = "loop"
    /\ i <= Len(leagues_we_need_to_update)
    /\ LET item == leagues_we_need_to_update[i]
       IN  IF TeamsStale(item)
           THEN \E response \in Answers(provider.teams, Responses(UpToOne(RawTeams))), store_ok \in BOOLEAN :
                   LET teams == process_teams_to_df(get_data(response))
                   IN  IF teams.err # "none"
                       THEN /\ Raise(teams.err)
                            /\ UNCHANGED s3
                       ELSE IF ~store_ok
                       THEN /\ Raise("ClientError")
                            /\ UNCHANGED s3
                       ELSE /\ s3' = upload_df_to_s3(s3, <<"teams", item.league_id, item.season_year>>, teams.df)
                            /\ teams_updated' = TRUE
                            /\ calls' = {"get_teams", "put_teams"}
                            /\ fixtures' = NoData
                            /\ newest_game_date' = None
                            /\ query_limit' = None
                            /\ pc' = "fixtures"
                            /\ outcome' = "none"
                            /\ UNCHANGED <<todays_date, leagues_we_need_to_update, i>>
           ELSE /\ teams_updated' = FALSE
                /\ calls' = {}
                /\ fixtures' = NoData
                /\ newest_game_date' = None
                /\ query_limit' = None
                /\ pc' = "fixtures"
                /\ outcome' = "none"
                /\ UNCHANGED <<s3, todays_date, leagues_we_need_to_update, i>>
    /\ UNCHANGED aside
    /\ UNCHANGED <<table, now>>

\* A fetch that stamps last_updated_fixtures on the row before it normalizes
\* what it fetched.
FetchFixturesStampingFirst ==
    /\ pc = "fixtures"
    /\ table' = [table EXCEPT ![KeyOf(leagues_we_need_to_update[i])].last_updated_fixtures =
                                  todays_date]
    /\ \E response \in Answers(provider.fixtures, Responses(UpToOne(RawFixtures({0})))) :
          LET normalized == process_fixtures_to_df(get_data(response))
          IN  IF normalized.err # "none"
              THEN Raise(normalized.err)
              ELSE /\ fixtures' = normalized.df
                   /\ calls' = calls \cup {"get_fixtures"}
                   /\ pc' = "upload"
                   /\ outcome' = "none"
                   /\ UNCHANGED <<todays_date, query_limit, leagues_we_need_to_update, i,
                                  teams_updated, newest_game_date>>
    /\ UNCHANGED aside
    /\ UNCHANGED <<s3, now>>

\* get_data of the fixtures and process_fixtures_to_df; the provider answers
\* with at most one fixture (larger tables are the calculator's, below).
FetchFixtures ==
    /\ pc = "fixtures"
    /\ \E response \in Answers(provider.fixtures, Responses(UpToOne(RawFixtures({0})))) :
          LET normalized == process_fixtures_to_df(get_data(response))
          IN  IF normalized.err # "none"
              THEN Raise(normalized.err)
              ELSE /\ fixtures' = normalized.df
                   /\ calls' = calls \cup {"get_fixtures"}
                   /\ pc' = "upload"
                   /\ outcome' = "none"
                   /\ UNCHANGED <<todays_date, query_limit, leagues_we_need_to_update, i,
                                  teams_updated, newest_game_date>>
    /\ UNCHANGED aside
    /\ UNCHANGED <<table, s3, now>>

\* An upload whose ClientError is caught and logged: the pass goes on.
UploadFixturesUnchecked ==
    /\ pc = "upload"
    /\ LET item == leagues_we_need_to_update[i]
       IN  \E store_ok \in BOOLEAN :
              /\ IF store_ok
                 THEN /\ s3' = upload_df_to_s3(s3, <<"fixtures", item.league_id, item.season_year>>, fixtures)
                      /\ calls' = calls \cup {"put_fixtures"}
                 ELSE UNCHANGED <<s3, calls>>
              /\ pc' = "update"
              /\ outcome' = "none"
              /\ UNCHANGED <<todays_date, query_limit, leagues_we_need_to_update, i,
                             teams_updated, fixtures, newest_game_date>>
    /\ UNCHANGED aside
    /\ UNCHANGED <<table, now>>

\* upload_df_to_s3 of the fixtures.
UploadFixtures ==
    /\ pc = "upload"
    /\ LET item == leagues_we_need_to_update[i]
       IN  \E store_ok \in BOOLEAN :
              IF store_ok
              THEN /\ s3' = upload_df_to_s3(s3, <<"fixtures", item.league_id, item.season_year>>, fixtures)
                   /\ calls' = calls \cup {"put_fixtures"}
                   /\ pc' = "update"
                   /\ outcome' = "none"
                   /\ UNCHANGED <<todays_date, query_limit, leagues_we_need_to_update, i,
                                  teams_updated, fixtures, newest_game_date>>
              ELSE /\ Raise("ClientError")
                   /\ UNCHANGED s3
    /\ UNCHANGED aside
    /\ UNCHANGED <<table, now>>

\* The update of a loop that does not sleep after its last item.
UpdateMetaSkippingLastSleep ==
    /\ pc = "update"
    /\ LET item == leagues_we_need_to_update[i]
           newest == get_newest_game_date(fixtures)
       IN  IF newest = NaN
           THEN /\ Raise("TypeError")
                /\ UNCHANGED table
           ELSE \E store_ok \in BOOLEAN :
                   IF store_ok
                   THEN /\ table' = update_the_dymamodb_meta_table(
                                        table, item.league_id, item.season_year,
                                        IF teams_updated THEN todays_date ELSE None,
                                        todays_date, newest,
                                        PosteriorsNeedToUpdate(item, newest),
                                        DataNeedToUpdate(item, todays_date))
                        /\ newest_game_date' = newest
                        /\ pc' = IF i = Len(leagues_we_need_to_update) THEN "loop" ELSE "sleep"
                        /\ i' = IF i = Len(leagues_we_need_to_update) THEN i + 1 ELSE i
                        /\ outcome' = "none"
                        /\ UNCHANGED <<todays_date, query_limit, leagues_we_need_to_update,
                                       teams_updated, fixtures, calls>>
                   ELSE /\ Raise("ClientError")
                        /\ UNCHANGED table
    /\ UNCHANGED aside
    /\ UNCHANGED <<s3, now>>

\* get_newest_game_date, the two flags and update_the_dymamodb_meta_table;
\* comparing a date (a str) with nan raises TypeError.
UpdateMeta ==
    /\ pc = "update"
    /\ LET item == leagues_we_need_to_update[i]
           newest == get_newest_game_date(fixtures)
       IN  IF newest = NaN
           THEN /\ Raise("TypeError")
                /\ UNCHANGED table
           ELSE \E store_ok \in BOOLEAN :
                   IF store_ok
                   THEN /\ table' = update_the_dymamodb_meta_table(
                                        table, item.league_id, item.season_year,
                                        IF teams_updated THEN todays_date ELSE None,
                                        todays_date, newest,
                                        PosteriorsNeedToUpdate(item, newest),
                                        DataNeedToUpdate(item, todays_date))
                        /\ newest_game_date' = newest
                        /\ pc' = "sleep"
                        /\ outcome' = "none"
                        /\ UNCHANGED <<todays_date, query_limit, leagues_we_need_to_update, i,
                                       teams_updated, fixtures, calls>>
                   ELSE /\ Raise("ClientError")
                        /\ UNCHANGED table
    /\ UNCHANGED aside
    /\ UNCHANGED <<s3, now>>

\* time.sleep(SLEEP_TIME_BETWEEN_CALLS_SECONDS), then the next item; what the
\* pass computed is not read again.
Sleep ==
    /\ pc = "sleep"
    /\ i' = i + 1
    /\ teams_updated' = FALSE
    /\ fixtures' = NoData
    /\ newest_game_date' = None
    /\ calls' = {}
    /\ pc' = "loop"
    /\ outcome' = "none"
    /\ UNCHANGED aside
    /\ UNCHANGED <<table, s3, now, todays_date, query_limit, leagues_we_need_to_update>>

\* The loop is over: statusCode 200 and the leagues_updated body.
Return ==
    /\ pc = "loop"
    /\ i > Len(leagues_we_need_to_update)
    /\ pc' = "idle"
    /\ outcome' = "leagues_updated"
    /\ NoLocals
    /\ UNCHANGED aside
    /\ UNCHANGED <<table, s3, now>>

\* ------------------------------------------------------ overlapping runs
\* The platform executes a second invocation of lambda_handler at the same
\* time: the processor leaves the invocation it is in, where it is, and goes
\* on with the other one.
Switch ==
    /\ other' = [pc |-> pc, todays_date |-> todays_date, query_limit |-> query_limit,
                 leagues_we_need_to_update |-> leagues_we_need_to_update, i |-> i,
                 teams_updated |-> teams_updated, fixtures |-> fixtures,
                 newest_game_date |-> newest_game_date, calls |-> calls]
    /\ pc' = other.pc
    /\ todays_date' = other.todays_date
    /\ query_limit' = other.query_limit
    /\ leagues_we_need_to_update' = other.leagues_we_need_to_update
    /\ i' = other.i
    /\ teams_updated' = other.teams_updated
    /\ fixtures' = other.fixtures
    /\ newest_game_date' = other.newest_game_date
    /\ calls' = other.calls
    /\ outcome' = "none"
    /\ UNCHANGED <<table, s3, now, provider>>

\* ------------------------------------------------------------- environment
\* A day passes.
Tick ==
    /\ now < MaxDay
    /\ now' = now + 1
    /\ outcome' = "none"
    /\ UNCHANGED aside
    /\ UNCHANGED <<table, s3, pc, syncLocals>>

\* The downstream consumer recomputes the posteriors of a season that is
\* flagged: it advances last_updated_posteriors and clears the flag.
ConsumerRecompute ==
    /\ \E k \in Keys :
          /\ table[k] # NoItem
          /\ table[k].posteriors_need_to_update = 1
          /\ table' = [table EXCEPT ![k].last_updated_posteriors = now,
                                    ![k].posteriors_need_to_update = None]
    /\ outcome' = "none"
    /\ UNCHANGED aside
    /\ UNCHANGED <<s3, now, pc, syncLocals>>

\* No invocation is executing: the bucket is empty and the locals are unset.
InitLocals ==
    /\ s3 = [p \in S3Paths |-> NoObject]
    /\ now = 1
    /\ pc = "idle"
    /\ todays_date = None
    /\ query_limit = None
    /\ newest_game_date = None
    /\ leagues_we_need_to_update = << >>
    /\ i = 1
    /\ teams_updated = FALSE
    /\ fixtures = NoData
    /\ calls = {}
    /\ outcome = "none"

\* The locals of an invocation that has not started.
NotStarted ==
    [pc |-> "idle", todays_date |-> None, query_limit |-> None,
     leagues_we_need_to_update |-> << >>, i |-> 1, teams_updated |-> FALSE,
     fixtures |-> NoData, newest_game_date |-> None, calls |-> {}]

\* The state after construction, but for the table.
InitRest ==
    /\ InitLocals
    /\ provider = AnyProvider
    /\ other = NotStarted

EmptyTable == [k \in Keys |-> NoItem]

Init ==
    /\ table = EmptyTable
    /\ InitRest

Next ==
    \/ BootstrapImport
    \/ StartRun
    \/ TeamsStep
    \/ FetchFixtures
    \/ UploadFixtures
    \/ UpdateMeta
    \/ Sleep
    \/ Return
    \/ Tick
    \/ ConsumerRecompute

Spec == Init /\ [][Next]_vars

\* ------------------------------------------- runs over two open seasons
\* The catalog after an import of the first kept season of two leagues, both
\* seasons starting on the first day and that of league 1 ending first;
\* synchronization runs follow one another as the days pass.
InitPair ==
    /\ \E a \in RawSeasons({1}, {"League"}, {TRUE}), b \in RawSeasons({2}, {"League"}, {TRUE}) :
          /\ a.year = FIRST_YEAR + 1
          /\ b.year = FIRST_YEAR + 1
          /\ a.bounds[1] = 1
          /\ b.bounds[1] = 1
          /\ a.bounds[2] <= b.bounds[2]
          /\ table = put_items(EmptyTable, <<NewItem(a), NewItem(b)>>)
    /\ InitRest

NextPair ==
    \/ StartRun
    \/ TeamsStep
    \/ FetchFixtures
    \/ UploadFixtures
    \/ UpdateMeta
    \/ Sleep
    \/ Return
    \/ Tick

SpecPair == InitPair /\ [][NextPair]_vars

\* ------------------------------------------------ the selector on its own
\* What the item of the first kept season of a league can be: none, the item
\* the import made, or that item after a run updated it on some day.
SeededItems(league) ==
    LET made == {NewItem(season) :
                    season \in {r \in RawSeasons({league}, {"League"}, {TRUE}) :
                                    r.year = FIRST_YEAR + 1}}
        updated(item, day) ==
            update_the_dymamodb_meta_table(
                put_item(EmptyTable, item), item.league_id, item.season_year,
                day, day, day, TRUE, DataNeedToUpdate(item, day))[KeyOf(item)]
    IN  {NoItem} \cup made \cup {updated(item, day) : item \in made, day \in Dates}

InitSelect ==
    /\ \E a \in SeededItems(1), b \in SeededItems(2), c \in SeededItems(3) :
          table = [k \in Keys |->
                     IF k[2] # FIRST_YEAR + 1 THEN NoItem
                     ELSE IF k[1] = 1 THEN a ELSE IF k[1] = 2 THEN b ELSE c]
    /\ InitRest

SpecSelect == InitSelect /\ [][StartRun]_vars

\* ------------------------------------- two invocations over one open season
\* The catalog after an import of one season; the provider's teams and
\* fixtures do not change, and the day does not pass, while two invocations
\* of the run execute.
InitOverlap ==
    /\ \E a \in RawSeasons({1}, {"League"}, {TRUE}) :
          /\ a.year = FIRST_YEAR + 1
          /\ table = put_items(EmptyTable, <<NewItem(a)>>)
    /\ InitLocals
    /\ other = NotStarted
    /\ \E teams \in Responses(UpToOne(RawTeams)),
          games \in Responses(UpToOne(RawFixtures({0}))) :
          provider = [AnyProvider EXCEPT !.fixed = TRUE, !.teams = teams, !.fixtures = games]

NextOverlap ==
    \/ StartRun
    \/ TeamsStep
    \/ FetchFixtures
    \/ UploadFixtures
    \/ UpdateMeta
    \/ Sleep
    \/ Return
    \/ Switch

SpecOverlap == InitOverlap /\ [][NextOverlap]_vars

\* --------------------------------------------------- the import on its own
\* The seasons a listing can hold: of two leagues, league or cup competitions,
\* with or without events coverage, of either year, starting on the first day.
CatalogSeasons ==
    {r \in RawSeasons({1, 2}, {"League", "Cup"}, BOOLEAN) : r.bounds[1] = 1}

\* The provider lists up to MaxCatalog seasons, and the listing does not
\* change while imports into an empty table follow one another.
InitImport ==
    /\ table = EmptyTable
    /\ InitLocals
    /\ other = NotStarted
    /\ \E listed \in SeqsUpTo(CatalogSeasons, MaxCatalog) :
          provider = [AnyProvider EXCEPT !.fixed = TRUE,
                                         !.listing = [status_code |-> HTTP_OK,
                                                      response |-> listed]]

SpecImport == InitImport /\ [][BootstrapImport]_vars

\* --------------------------------------- the freshness calculator on its own
\* The fixture tables of up to MaxTableLen games, at either hour of a day.
FixtureTables ==
    {process_fixtures_to_df(b).df :
        b \in {r \in SeqsUpTo(RawFixtures({0, 1}), MaxTableLen) :
                  process_fixtures_to_df(r).err = "none"}}

InitFresh ==
    /\ table = EmptyTable
    /\ s3 = [p \in S3Paths |-> NoObject]
    /\ now = 1
    /\ pc = "fresh"
    /\ todays_date = None
    /\ query_limit = None
    /\ newest_game_date = None
    /\ leagues_we_need_to_update = << >>
    /\ i = 1
    /\ teams_updated = FALSE
    /\ fixtures \in FixtureTables
    /\ calls = {}
    /\ outcome = "none"
    /\ provider = AnyProvider
    /\ other = NotStarted

\* newest_game_date = get_newest_game_date(fixture_df=fixtures)
Freshness ==
    /\ pc = "fresh"
    /\ newest_game_date' = get_newest_game_date(fixtures)
    /\ pc' = "fresh_done"
    /\ UNCHANGED aside
    /\ UNCHANGED <<table, s3, now, todays_date, query_limit, leagues_we_need_to_update, i,
                   teams_updated, fixtures, calls, outcome>>

SpecFresh == InitFresh /\ [][Freshness]_vars

\* =================================================================== claims
\* The item of the pass the run is in, and the row of its key.
Candidate == leagues_we_need_to_update[i]
CandidateKey == KeyOf(Candidate)
\* The step of a run that writes the metadata update of its candidate.
UpdateStep == pc = "update" /\ pc' = "sleep"
\* A step in which an exception ends the run.
RunRaises == pc # "idle" /\ pc' = "idle" /\ outcome' # "leagues_updated"
\* A step of the bootstrap import: it ends the import and leaves the run alone.
ImportStep ==
    /\ pc' = pc
    /\ outcome' \in {"Meta information succesfully imported", "ClientError", "Exception",
                    "KeyError"}

\* ----------------------------------------------------------------------- C1
\* The rows with data_need_to_update present.
FlaggedKeys == {k \in Keys : table[k] # NoItem /\ table[k].data_need_to_update # None}

\* C1: whatever the catalog and the limit N, the query of a run returns only
\* rows that carry data_need_to_update, each of them once, at most N of them,
\* no more than there are flagged rows, and the empty sequence, without an
\* error, when no row is flagged.
C1_SelectorReturnsOnlyFlaggedRows ==
    (pc = "loop" /\ query_limit # None) =>
        LET result == leagues_we_need_to_update
        IN  /\ \A j \in 1..Len(result) :
                  /\ KeyOf(result[j]) \in FlaggedKeys
                  /\ result[j] = table[KeyOf(result[j])]
                  /\ result[j].data_need_to_update # None
            /\ \A a, b \in 1..Len(result) : a # b => KeyOf(result[a]) # KeyOf(result[b])
            /\ Len(result) <= query_limit
            /\ Len(result) <= Cardinality(FlaggedKeys)
            /\ FlaggedKeys = {} => (result = << >> /\ outcome = "none")

\* A query that hit its limit while the catalog held a closed row and more
\* flagged rows than the limit.
C1_Witness ==
    /\ pc = "loop"
    /\ query_limit # None
    /\ Len(leagues_we_need_to_update) = query_limit
    /\ Cardinality(FlaggedKeys) > query_limit
    /\ \E k \in Keys : table[k] # NoItem /\ table[k].data_need_to_update = None

\* ----------------------------------------------------------------------- C2
\* C2: the query returns the flagged rows by ascending last_updated_fixtures,
\* and the rows it leaves out were updated no earlier than those it returns
\* (the N least recently updated rows, least recently updated first).
C2_SelectorAscendingLeastRecentFirst ==
    (pc = "loop" /\ query_limit # None) =>
        LET result == leagues_we_need_to_update
            returned == {KeyOf(result[j]) : j \in 1..Len(result)}
        IN  /\ \A a, b \in 1..Len(result) :
                  a < b => result[a].last_updated_fixtures <= result[b].last_updated_fixtures
            /\ \A k \in FlaggedKeys \ returned :
                  \A j \in 1..Len(result) :
                      result[j].last_updated_fixtures <= table[k].last_updated_fixtures

RowCount(tbl) == Cardinality({k \in Keys : tbl[k] # NoItem})

\* C4: an import only inserts under keys that hold nothing. Every step of the
\* import leaves each row the catalog held as it was, field by field, and in
\* every state the catalog reaches, after any updates of the runs, importing a
\* listing a second time leaves the table of the first import, and with it
\* the number of rows, as it is.
C4_ImportInsertIfAbsent ==
    /\ [][ImportStep => \A k \in Keys : table[k] # NoItem => table'[k] = table[k]]_vars
    /\ [](\A response \in Listings :
            LET items == ImportOf(response).items
                once == put_items(table, items)
                twice == put_items(once, items)
            IN  /\ twice = once
                /\ RowCount(twice) = RowCount(once)
                /\ \A k \in Keys : table[k] # NoItem => once[k] = table[k])

\* An import has completed over a row that a run had updated.
C4_Witness ==
    /\ outcome = "Meta information succesfully imported"
    /\ \E k \in Keys :
          /\ table[k] # NoItem
          /\ table[k].last_updated_fixtures # FAR_PAST
          /\ table[k].last_updated_teams # None

\* ----------------------------------------------------------------------- C5
\* Both snapshots of the candidate are in the bucket.
SnapshotsPublished ==
    /\ {"get_fixtures", "put_fixtures"} \subseteq calls
    /\ s3[<<"fixtures", Candidate.league_id, Candidate.season_year>>] = fixtures
    /\ fixtures # NoData
    /\ teams_updated =>
          /\ {"get_teams", "put_teams"} \subseteq calls
          /\ s3[<<"teams", Candidate.league_id, Candidate.season_year>>] # NoObject

\* C5: a run writes to the catalog only in the metadata update of a candidate,
\* and only once the fixtures snapshot, and the teams snapshot when the teams
\* were refreshed, are published; a step of a candidate that fails ends the
\* run with the catalog as it was.
C5_UpdateOnlyAfterSnapshots ==
    [][/\ (pc' # pc /\ table' # table) => UpdateStep
       /\ UpdateStep => SnapshotsPublished
       /\ RunRaises => table' = table]_vars

\* A metadata update written after teams and fixtures were both published.
C5_Witness ==
    /\ pc = "sleep"
    /\ teams_updated
    /\ calls = {"get_teams", "put_teams", "get_fixtures", "put_fixtures"}
    /\ table[CandidateKey].last_updated_fixtures = todays_date
    /\ table[CandidateKey].last_updated_teams = todays_date

\* ----------------------------------------------------------------------- C6
\* C6: a fixtures or teams request that the provider answers with a failure
\* status or an empty array does not end the run: the run goes on with the
\* candidates that remain.
C6_EmptyFetchDoesNotAbortRun ==
    [][(pc \in {"loop", "fixtures"} /\ i < Len(leagues_we_need_to_update))
          => ~(pc' = "idle" /\ outcome' = "NotImplementedError")]_vars

\* ----------------------------------------------------------------------- C7
\* C7: in a pass of a run the teams are fetched and published exactly when the
\* candidate's last_updated_teams is absent or earlier than its start_date;
\* the fixtures are fetched and published in every pass that reaches the
\* update; the update sets last_updated_fixtures to the processing date, and
\* last_updated_teams to it when the teams were refreshed in this pass, and
\* else leaves last_updated_teams as it was.
C7_TeamsOnlyWhenStaleFixturesAlways ==
    [][/\ (pc = "loop" /\ pc' = "fixtures") =>
             LET stale == \/ Candidate.last_updated_teams = None
                          \/ Candidate.last_updated_teams < Candidate.start_date
                 path == <<"teams", Candidate.league_id, Candidate.season_year>>
             IN  /\ teams_updated' <=> stale
                 /\ ("get_teams" \in calls') <=> stale
                 /\ ("put_teams" \in calls') <=> stale
                 /\ stale => s3'[path] # NoObject
                 /\ ~stale => s3' = s3
       /\ UpdateStep =>
             /\ {"get_fixtures", "put_fixtures"} \subseteq calls
             /\ table'[CandidateKey].last_updated_fixtures = todays_date
             /\ table'[CandidateKey].last_updated_teams =
                   IF teams_updated THEN todays_date
                   ELSE table[CandidateKey].last_updated_teams]_vars

\* An update that left the teams date of an earlier day and set the fixtures
\* date to the processing date.
C7_Witness ==
    /\ pc = "sleep"
    /\ ~teams_updated
    /\ "put_teams" \notin calls
    /\ "put_fixtures" \in calls
    /\ table[CandidateKey].last_updated_teams # None
    /\ table[CandidateKey].last_updated_teams < todays_date
    /\ table[CandidateKey].last_updated_fixtures = todays_date

\* ----------------------------------------------------------------------- C8
\* The days of the candidate's fixture table on which every game has a score.
CompleteDays(fixture_df) ==
    {d \in Dates :
        /\ \E j \in 1..Len(fixture_df) : strftime_day(fixture_df[j].game_date) = d
        /\ \A j \in 1..Len(fixture_df) :
              strftime_day(fixture_df[j].game_date) = d => fixture_df[j].score_ft_home # None}

\* C8: unless the store refuses the write, a pass that has published the
\* fixtures writes the metadata update, and the update sets
\* posteriors_need_to_update exactly when last_updated_posteriors ("2000-01-01"
\* when absent) is earlier than the newest completed game date; when the
\* fixtures have no complete day the update is written all the same, without
\* setting the flag.
C8_PosteriorsFlagAndUpdateWithoutCompleteDay ==
    [][(pc = "update" /\ pc' # pc /\ outcome' # "ClientError") =>
          LET complete == CompleteDays(fixtures)
              before == table[CandidateKey].posteriors_need_to_update
              lup == IF Candidate.last_updated_posteriors = None
                     THEN FAR_PAST ELSE Candidate.last_updated_posteriors
              sets == complete # {} /\ lup < Max(complete)
          IN  /\ pc' = "sleep"
              /\ table'[CandidateKey].last_updated_fixtures = todays_date
              /\ table'[CandidateKey].posteriors_need_to_update =
                    IF sets THEN 1 ELSE before]_vars

\* ----------------------------------------------------------------------- C9
\* C9: once a row carries posteriors_need_to_update, no step of a run and no
\* import takes it away, an update whose last_updated_posteriors is not
\* earlier than the newest game date included; only the consumer's
\* recomputation clears it.
C9_PosteriorsFlagSticky ==
    [][\A k \in Keys :
          (/\ table[k] # NoItem
           /\ table[k].posteriors_need_to_update = 1
           /\ table'[k].posteriors_need_to_update # 1) => ConsumerRecompute]_vars

\* An update, made when last_updated_posteriors was not earlier than the
\* newest game date, that left the flag on the row.
C9_Witness ==
    /\ pc = "sleep"
    /\ Candidate.posteriors_need_to_update = 1
    /\ Candidate.last_updated_posteriors # None
    /\ Candidate.last_updated_posteriors >= newest_game_date
    /\ table[CandidateKey].newest_game_date = newest_game_date
    /\ table[CandidateKey].posteriors_need_to_update = 1

\* ---------------------------------------------------------------------- C10
\* C10: the calculator returns the latest day on which every fixture has a
\* full-time home score, and no date (nan) when there is no such day; a day
\* with a game without a score is never returned, be it the latest day and its
\* other games played.
C10_NewestCompletedGameDate ==
    pc = "fresh_done" =>
        LET pending == {strftime_day(fixtures[j].game_date) :
                           j \in {m \in 1..Len(fixtures) : fixtures[m].score_ft_home = None}}
            played == {strftime_day(fixtures[j].game_date) : j \in 1..Len(fixtures)}
        IN  /\ newest_game_date \notin pending
            /\ IF played \ pending = {}
               THEN newest_game_date = NaN
               ELSE /\ newest_game_date \in played \ pending
                    /\ \A d \in played \ pending : d <= newest_game_date

\* A table with a finished first day and, on the second day, a played game and
\* a pending one: the first day is returned.
C10_Witness ==
    /\ pc = "fresh_done"
    /\ newest_game_date = 1
    /\ \E a, b, c \in 1..Len(fixtures) :
          /\ strftime_day(fixtures[a].game_date) = 1
          /\ strftime_day(fixtures[b].game_date) = 2
          /\ fixtures[b].score_ft_home = None
          /\ strftime_day(fixtures[c].game_date) = 2
          /\ fixtures[c].score_ft_home # None

\* ---------------------------------------------------------------------- C11
\* The records of the listing that the import keeps: no cup, a year after
\* FIRST_YEAR, events coverage.
Qualifying ==
    LET listed == provider.listing.response
    IN  {j \in 1..Len(listed) :
            /\ listed[j].league_type # "Cup"
            /\ listed[j].year > FIRST_YEAR
            /\ listed[j].coverage_fixtures_events}

C12_OverlappingRunsIdempotent ==
    [][\A k \in Keys :
          (table[k] # NoItem /\ table[k].last_updated_fixtures = now) =>
              /\ table'[k] = table[k]
              /\ s3'[<<"fixtures", k[1], k[2]>>] = s3[<<"fixtures", k[1], k[2]>>]
              /\ s3'[<<"teams", k[1], k[2]>>] = s3[<<"teams", k[1], k[2]>>]]_vars

\* Two invocations that selected the same candidate have both written its
\* metadata update, neither having ended before the other's update.
C12_Witness ==
    /\ pc = "sleep"
    /\ other.pc = "sleep"
    /\ other.leagues_we_need_to_update # << >>
    /\ KeyOf(other.leagues_we_need_to_update[other.i]) = CandidateKey
    /\ other.leagues_we_need_to_update[other.i].last_updated_fixtures = FAR_PAST
    /\ Candidate.last_updated_fixtures = FAR_PAST
    /\ table[CandidateKey].last_updated_fixtures = now

\* ---------------------------------------------------------------------- C13
\* C13: when a key that process_fixtures_to_df or process_teams_to_df selects
\* is missing from what was fetched for a candidate, no metadata update of the
\* candidate is written: its row is, field for field, the item the run
\* selected, data_need_to_update still on it, and the rows of the candidates
\* the run updated before keep their updates.
C13_SchemaErrorWritesNothing ==
    [][(pc \in {"loop", "fixtures"} /\ pc' = "idle" /\ outcome' = "KeyError") =>
          /\ table' = table
          /\ table'[CandidateKey] = Candidate
          /\ table'[CandidateKey].data_need_to_update = 1
          /\ \A j \in 1..(i - 1) :
                table'[KeyOf(leagues_we_need_to_update[j])].last_updated_fixtures =
                    todays_date]_vars

\* A run has ended on a missing key while one season had its update of the
\* day and the other was as the import made it.
C13_Witness ==
    /\ outcome = "KeyError"
    /\ pc = "idle"
    /\ \E k1, k2 \in Keys :
          /\ table[k1] # NoItem
          /\ table[k1].last_updated_fixtures = now
          /\ table[k2] # NoItem
          /\ table[k2].last_updated_fixtures = FAR_PAST
          /\ table[k2].data_need_to_update = 1

\* ---------------------------------------------------------------------- C14
\* C14: the metadata update of a run leaves league_id, season_year,
\* start_date, end_date and last_updated_posteriors of the row it updates as
\* they were, and every other row of the catalog as it was; no step of a run
\* changes last_updated_posteriors of any row.
C14_UpdateFrame ==
    [][/\ UpdateStep =>
             \A k \in Keys :
                IF k = CandidateKey
                THEN /\ table'[k].league_id = table[k].league_id
                     /\ table'[k].season_year = table[k].season_year
                     /\ table'[k].start_date = table[k].start_date
                     /\ table'[k].end_date = table[k].end_date
                     /\ table'[k].last_updated_posteriors = table[k].last_updated_posteriors
                ELSE table'[k] = table[k]
       /\ pc' # pc =>
             \A k \in Keys :
                table'[k].last_updated_posteriors = table[k].last_updated_posteriors]_vars

\* A run has updated one season while the other season is as the import made
\* it.
C14_Witness ==
    /\ pc = "sleep"
    /\ table[CandidateKey].last_updated_fixtures = todays_date
    /\ table[CandidateKey].start_date = Candidate.start_date
    /\ table[CandidateKey].end_date = Candidate.end_date
    /\ table[CandidateKey].last_updated_posteriors = None
    /\ \E k \in Keys \ {CandidateKey} :
          /\ table[k] # NoItem
          /\ table[k].last_updated_fixtures = FAR_PAST
          /\ table[k].last_updated_teams = None

\* ---------------------------------------------------------------------- C15
\* C15: an import whose listing request gets a non-200 answer hands no
\* exception to its caller (the Exception of get_seasons_data_from_api is the
\* only one of that name), and leaves the catalog as it was.
C15_CatalogFailureNotRaised ==
    [][ImportStep => (outcome' # "Exception" /\ (outcome' = "Exception" => table' = table))]_vars

\* ---------------------------------------------------------------------- C16
\* C16: in a run every metadata update is followed by the delay, that of the
\* last candidate too, and the run moves to its next candidate only by a
\* delay: the fetches of a candidate start at the head of the loop, after the
\* delay of the candidate before, and a run that returns after k candidates
\* has slept k times.
C16_DelayAfterEveryUpdate ==
    [][/\ (pc = "update" /\ pc' \notin {"update", "idle"}) => pc' = "sleep"
       /\ (pc = "sleep" /\ pc' # pc) => (pc' = "loop" /\ i' = i + 1)
       /\ (pc' = "fixtures" /\ pc # "fixtures") => pc = "loop"
       /\ (pc \notin {"idle", "sleep"} /\ pc' # "idle") => i' = i
       /\ outcome' = "leagues_updated" =>
             (pc = "loop" /\ i = Len(leagues_we_need_to_update) + 1)]_vars

\* A run of two candidates has slept after the update of the second, and is
\* about to return.
C16_Witness ==
    /\ pc = "loop"
    /\ Len(leagues_we_need_to_update) = 2
    /\ i = 3
    /\ \A j \in 1..2 :
          table[KeyOf(leagues_we_need_to_update[j])].last_updated_fixtures = todays_date

\* ---------------------------------------------------------------------- C17
\* C17: the newest_game_date a metadata update writes on a row is a date, and
\* not an earlier one than the row held before the update.
C17_NewestGameDateDoesNotRegress ==
    [][UpdateStep =>
          /\ table'[CandidateKey].newest_game_date \in Dates
          /\ table'[CandidateKey].newest_game_date >= table[CandidateKey].newest_game_date]_vars

\* ---------------------------------------------------------------------- C18
\* Two open seasons that do not end while the runs below execute; the provider
\* answers every request, with teams and a played game that do not change.
InitQuota ==
    /\ \E a \in RawSeasons({1}, {"League"}, {TRUE}), b \in RawSeasons({2}, {"League"}, {TRUE}) :
          /\ a.year = FIRST_YEAR + 1
          /\ b.year = FIRST_YEAR + 1
          /\ a.bounds[2] > 1
          /\ b.bounds[2] > 1
          /\ table = put_items(EmptyTable, <<NewItem(a), NewItem(b)>>)
    /\ InitLocals
    /\ other = NotStarted
    /\ \E game \in RawFixtures({0}) :
          /\ game.score_fulltime_home = 0
          /\ provider = [AnyProvider EXCEPT
                            !.fixed = TRUE,
                            !.teams = [status_code |-> HTTP_OK,
                                       response |-> <<[team_id |-> 1, team_code |-> 1]>>],
                            !.fixtures = [status_code |-> HTTP_OK, response |-> <<game>>]]

\* Runs that follow one another on one day, none of them failing, each with a
\* MAX_UPDATES smaller than the number of flagged rows.
NextQuota ==
    /\ \/ StartRun
       \/ TeamsStep
       \/ FetchFixtures
       \/ UploadFixtures
       \/ UpdateMeta
       \/ Sleep
       \/ Return
    /\ outcome' \in {"none", "leagues_updated"}
    /\ query_limit' # None => query_limit' < Cardinality(FlaggedKeys)

\* The runs are scheduled again and again, and each goes on to its end.
SpecQuota == InitQuota /\ [][NextQuota]_vars /\ WF_vars(NextQuota)

\* C18: with a limit smaller than the number of flagged rows and runs that
\* follow one another without a failure, every flagged row is, sooner or
\* later, selected and updated by a run.
C18_EveryFlaggedRowEventuallyRefreshed ==
    \A k \in Keys :
        <>(table[k] = NoItem \/ table[k].last_updated_fixtures # FAR_PAST)

\* ---------------------------------------------------------------------- C19
\* C19: a row from which an update has removed data_need_to_update stays
\* without it, whatever runs and imports come after; no later query of a run
\* returns the row, and no step of a run changes the row or its snapshots.
C19_ClosingIsPermanent ==
    [][\A k \in Keys :
          (table[k] # NoItem /\ table[k].data_need_to_update = None) =>
              /\ table'[k] # NoItem
              /\ table'[k].data_need_to_update = None
              /\ pc' # pc =>
                    /\ table'[k] = table[k]
                    /\ s3'[<<"fixtures", k[1], k[2]>>] = s3[<<"fixtures", k[1], k[2]>>]
                    /\ s3'[<<"teams", k[1], k[2]>>] = s3[<<"teams", k[1], k[2]>>]
              /\ (pc = "idle" /\ pc' = "loop") =>
                    \A j \in 1..Len(leagues_we_need_to_update') :
                        KeyOf(leagues_we_need_to_update'[j]) # k]_vars

\* On a later day than the one a run closed the season, an import has
\* completed and a run has queried the catalog, and selected nothing.
C19_Witness ==
    /\ pc = "loop"
    /\ query_limit # None
    /\ leagues_we_need_to_update = << >>
    /\ \E k \in Keys :
          /\ table[k] # NoItem
          /\ table[k].data_need_to_update = None
          /\ table[k].last_updated_fixtures # FAR_PAST
          /\ table[k].last_updated_fixtures < todays_date

====
